---- MODULE Spec2Model ----
(***************************************************************************)
(* Model of pathofexile/api.py: five stateless request functions.  Each    *)
(* function validates its arguments, builds an endpoint and a query        *)
(* mapping, issues one HTTP GET through `requests` and returns r.json().   *)
(*                                                                         *)
(* The module is Python 2 code (it uses `basestring`); values are modelled *)
(* as tagged Python values so that type tests (isinstance, `is None`) and  *)
(* equality between values of different types behave as in Python.         *)
(***************************************************************************)
EXTENDS Integers, Sequences, FiniteSets, TLC

VARIABLES
    op,        \* name of the function last called, "none" between calls
    args,      \* the arguments it was called with
    sent,      \* the GET requests handed to the transport during the call
    response,  \* what the transport produced for the call
    outcome    \* how the call ended: a raised exception or a returned value

vars == <<op, args, sent, response, outcome>>

----------------------------------------------------------------------------
(* Python values *)

PyStr(s) == [t |-> "str", v |-> s]
PyInt(n) == [t |-> "int", v |-> n]
PyNone == [t |-> "none", v |-> 0]

\* a == b in Python: values of different types are never equal
PyEq(a, b) == a.t = b.t /\ a.v = b.v

\* x in [list]
PyIn(x, list) == \E i \in 1..Len(list) : PyEq(x, list[i])

\* isinstance(x, basestring)
IsBasestring(x) == x.t = "str"

\* x is None
IsNone(x) == x.t = "none"

----------------------------------------------------------------------------
(* Bounds of the model *)

\* how far around each boundary of a numeric range the inputs are drawn
Margin == 1

\* longest string handed to get_league_rule
MaxIdLen == 3

Around(n) == (n - Margin)..(n + Margin)

----------------------------------------------------------------------------
(* Program constants *)

MaxLeagueLimit == 230
MaxLadderLimit == 200
MaxLadderOffset == 15000

\* Codes.returns: the status codes the API documents
StatusCodes == {200, 400, 404, 429, 500}

----------------------------------------------------------------------------
(* The transport: requests.get either raises (no connection) or gives a    *)
(* response r with an integer r.status_code and a body r.text.             *)

Bodies == {"[]", "[ ]", "{\"error\": {\"code\": 3}}", "<html>Too Many Requests</html>"}

NoResponse == [kind |-> "none", status_code |-> PyNone, text |-> ""]

ConnectionFailure == [kind |-> "error", status_code |-> PyNone, text |-> ""]

Responses == {[kind |-> "response", status_code |-> PyInt(s), text |-> b] :
                 s \in StatusCodes, b \in Bodies}

Transport == {ConnectionFailure} \cup Responses

\* r.json(): the decoded body; a body that is not JSON makes it raise ValueError
IsJson(text) == text \in {"[]", "[ ]", "{\"error\": {\"code\": 3}}"}

JsonDecode(text) ==
    CASE text = "[]" -> [t |-> "list", v |-> <<>>]
      [] text = "[ ]" -> [t |-> "list", v |-> <<>>]
      [] text = "{\"error\": {\"code\": 3}}" -> [t |-> "dict", v |-> [error |-> [code |-> 3]]]

Raise(exc) == [kind |-> "raise", exc |-> exc, value |-> PyNone]
Return(value) == [kind |-> "return", exc |-> "", value |-> value]
NoOutcome == [kind |-> "none", exc |-> "", value |-> PyNone]

\* r.json() behind a check of the status against the number 429
ReturnJson_checked(r) ==
    IF r.status_code.t = "int" /\ r.status_code.v = 429
    THEN Raise("RateLimitExceededError")
    ELSE IF IsJson(r.text) THEN Return(JsonDecode(r.text)) ELSE Raise("ValueError")

\* return r.json()
ReturnJson(r) == IF IsJson(r.text) THEN Return(JsonDecode(r.text)) ELSE Raise("ValueError")

\* the subclasses of InvalidParameterError
InvalidParameterErrors ==
    {"InvalidLeagueTypeError", "InvalidSeasonError", "InvalidCompactInfoError",
     "InvalidLeagueLimitError", "InvalidLeagueOffsetError", "InvalidLeagueIdError",
     "InvalidLadderInclusionError", "InvalidLadderLimitError",
     "InvalidLadderOffsetError", "InvalidLeagueRuleIdError", "InvalidLadderIdError"}

NoArgs == [self |-> PyNone]

----------------------------------------------------------------------------
(* get_leagues *)

LeagueTypeInputs == {PyStr(s) : s \in {"all", "main", "season", "event", "standard", ""}} \cup {PyNone}
SeasonInputs == {PyNone, PyStr(""), PyStr("Medallion"), PyInt(3)}
CompactInputs == {PyInt(n) : n \in (0 - Margin)..(1 + Margin)}
LeagueLimitInputs == {PyNone} \cup {PyInt(n) : n \in Around(0) \cup Around(MaxLeagueLimit)}
LeagueOffsetInputs == {PyInt(n) : n \in Around(0)}

\* get_leagues with the season tested for truth instead of for its type
get_leagues_validate_truthy_season(league_type, season, compact_info, league_limit, league_offset) ==
    IF ~PyIn(league_type, <<PyStr("all"), PyStr("main"), PyStr("season"), PyStr("event")>>)
    THEN "InvalidLeagueTypeError"
    ELSE IF PyEq(league_type, PyStr("season")) /\ ~(IsBasestring(season) /\ season.v # "")
    THEN "InvalidSeasonError"
    ELSE IF ~PyIn(compact_info, <<PyInt(0), PyInt(1)>>)
    THEN "InvalidCompactInfoError"
    ELSE IF ~(IsNone(league_limit)
              \/ (league_limit.v >= 0 /\ league_limit.v <= MaxLeagueLimit))
    THEN "InvalidLeagueLimitError"
    ELSE IF ~(league_offset.v >= 0)
    THEN "InvalidLeagueOffsetError"
    ELSE "ok"

\* get_leagues with the compact_info check moved in front of the type check
get_leagues_validate_compact_first(league_type, season, compact_info, league_limit, league_offset) ==
    IF ~PyIn(compact_info, <<PyInt(0), PyInt(1)>>)
    THEN "InvalidCompactInfoError"
    ELSE IF ~PyIn(league_type, <<PyStr("all"), PyStr("main"), PyStr("season"), PyStr("event")>>)
    THEN "InvalidLeagueTypeError"
    ELSE IF PyEq(league_type, PyStr("season")) /\ ~IsBasestring(season)
    THEN "InvalidSeasonError"
    ELSE IF ~(IsNone(league_limit)
              \/ (league_limit.v >= 0 /\ league_limit.v <= MaxLeagueLimit))
    THEN "InvalidLeagueLimitError"
    ELSE IF ~(league_offset.v >= 0)
    THEN "InvalidLeagueOffsetError"
    ELSE "ok"

\* get_leagues with an exclusive upper bound on league_limit
get_leagues_validate_exclusive_limit(league_type, season, compact_info, league_limit, league_offset) ==
    IF ~PyIn(league_type, <<PyStr("all"), PyStr("main"), PyStr("season"), PyStr("event")>>)
    THEN "InvalidLeagueTypeError"
    ELSE IF PyEq(league_type, PyStr("season")) /\ ~IsBasestring(season)
    THEN "InvalidSeasonError"
    ELSE IF ~PyIn(compact_info, <<PyInt(0), PyInt(1)>>)
    THEN "InvalidCompactInfoError"
    ELSE IF ~(IsNone(league_limit)
              \/ (league_limit.v >= 0 /\ league_limit.v < MaxLeagueLimit))
    THEN "InvalidLeagueLimitError"
    ELSE IF ~(league_offset.v >= 0)
    THEN "InvalidLeagueOffsetError"
    ELSE "ok"

\* the checks of get_leagues, in order; "ok" when none raises
get_leagues_validate(league_type, season, compact_info, league_limit, league_offset) ==
    IF ~PyIn(league_type, <<PyStr("all"), PyStr("main"), PyStr("season"), PyStr("event")>>)
    THEN "InvalidLeagueTypeError"
    ELSE IF PyEq(league_type, PyStr("season")) /\ ~IsBasestring(season)
    THEN "InvalidSeasonError"
    ELSE IF ~PyIn(compact_info, <<PyInt(0), PyInt(1)>>)
    THEN "InvalidCompactInfoError"
    ELSE IF ~(IsNone(league_limit)
              \/ (league_limit.v >= 0 /\ league_limit.v <= MaxLeagueLimit))
    THEN "InvalidLeagueLimitError"
    ELSE IF ~(league_offset.v >= 0)
    THEN "InvalidLeagueOffsetError"
    ELSE "ok"

\* get_leagues sending the season only for league_type "season"
get_leagues_params_season_by_type(league_type, season, compact_info, league_limit, league_offset) ==
    LET params == [type |-> league_type, compact |-> compact_info, offset |-> league_offset]
        with_season == IF PyEq(league_type, PyStr("season"))
                       THEN ("season" :> season) @@ params ELSE params
    IN  IF ~IsNone(league_limit) THEN ("limit" :> league_limit) @@ with_season ELSE with_season

\* the params dict of get_leagues
get_leagues_params(league_type, season, compact_info, league_limit, league_offset) ==
    LET params == [type |-> league_type, compact |-> compact_info, offset |-> league_offset]
        with_season == IF ~IsNone(season) THEN ("season" :> season) @@ params ELSE params
    IN  IF ~IsNone(league_limit) THEN ("limit" :> league_limit) @@ with_season ELSE with_season

get_leagues ==
    /\ op = "none"
    /\ \E league_type \in LeagueTypeInputs, season \in SeasonInputs,
          compact_info \in CompactInputs, league_limit \in LeagueLimitInputs,
          league_offset \in LeagueOffsetInputs, r \in Transport :
         LET err == get_leagues_validate(league_type, season, compact_info,
                                         league_limit, league_offset)
             endpoint == "http://api.pathofexile.com/leagues"
             params == get_leagues_params(league_type, season, compact_info,
                                          league_limit, league_offset)
         IN  /\ op' = "get_leagues"
             /\ args' = [league_type |-> league_type, season |-> season,
                         compact_info |-> compact_info, league_limit |-> league_limit,
                         league_offset |-> league_offset]
             /\ IF err # "ok"
                THEN /\ sent' = <<>>
                     /\ response' = NoResponse
                     /\ outcome' = Raise(err)
                ELSE /\ sent' = <<[url |-> endpoint, params |-> params]>>
                     /\ response' = r
                     /\ outcome' = IF r.kind = "error"
                                   THEN Raise("ConnectionError")
                                   ELSE ReturnJson(r)

----------------------------------------------------------------------------
(* get_league *)

IdInputs == {PyStr(""), PyStr("Standard"), PyNone, PyInt(7)}
LadderInputs == {PyInt(n) : n \in (0 - Margin)..(1 + Margin)}
\* the default ladder_limit
DefaultLadderLimit == 20

LadderLimitInputs ==
    {PyInt(n) : n \in Around(0) \cup Around(MaxLadderLimit) \cup {DefaultLadderLimit}}
LadderOffsetInputs == {PyInt(n) : n \in Around(0) \cup Around(MaxLadderOffset)}

\* get_league with the league id tested for truth instead of for its type
get_league_validate_truthy_id(league_id, ladder, ladder_limit, ladder_offset) ==
    IF ~(IsBasestring(league_id) /\ league_id.v # "")
    THEN "InvalidLeagueIdError"
    ELSE IF ~PyIn(ladder, <<PyInt(0), PyInt(1)>>)
    THEN "InvalidLadderInclusionError"
    ELSE IF ~(ladder_limit.v > 0) \/ ~(ladder_limit.v <= MaxLadderLimit)
    THEN "InvalidLadderLimitError"
    ELSE IF ~(ladder_offset.v >= 0) \/ ~(ladder_offset.v < MaxLadderOffset)
    THEN "InvalidLadderOffsetError"
    ELSE "ok"

\* the checks of get_league, in order; "ok" when none raises
get_league_validate(league_id, ladder, ladder_limit, ladder_offset) ==
    IF ~IsBasestring(league_id)
    THEN "InvalidLeagueIdError"
    ELSE IF ~PyIn(ladder, <<PyInt(0), PyInt(1)>>)
    THEN "InvalidLadderInclusionError"
    ELSE IF ~(ladder_limit.v > 0) \/ ~(ladder_limit.v <= MaxLadderLimit)
    THEN "InvalidLadderLimitError"
    ELSE IF ~(ladder_offset.v >= 0) \/ ~(ladder_offset.v < MaxLadderOffset)
    THEN "InvalidLadderOffsetError"
    ELSE "ok"

\* the params dict of get_league
get_league_params(league_id, ladder, ladder_limit, ladder_offset) ==
    [id |-> league_id, ladder |-> ladder,
     ladderLimit |-> ladder_limit, ladderOffset |-> ladder_offset]

get_league ==
    /\ op = "none"
    /\ \E league_id \in IdInputs, ladder \in LadderInputs,
          ladder_limit \in LadderLimitInputs, ladder_offset \in LadderOffsetInputs,
          r \in Transport :
         LET err == get_league_validate(league_id, ladder, ladder_limit, ladder_offset)
         IN  /\ op' = "get_league"
             /\ args' = [league_id |-> league_id, ladder |-> ladder,
                         ladder_limit |-> ladder_limit, ladder_offset |-> ladder_offset]
             /\ IF err # "ok"
                THEN /\ sent' = <<>>
                     /\ response' = NoResponse
                     /\ outcome' = Raise(err)
                ELSE /\ sent' = <<[url |-> "http://api.pathofexile.com/leagues/" \o league_id.v,
                                  params |-> get_league_params(league_id, ladder,
                                                               ladder_limit, ladder_offset)]>>
                     /\ response' = r
                     /\ outcome' = IF r.kind = "error"
                                   THEN Raise("ConnectionError")
                                   ELSE ReturnJson(r)

----------------------------------------------------------------------------
(* get_league_rules *)

\* get_league_rules asking again when the answer is not 200
get_league_rules_retry ==
    /\ op = "none"
    /\ \E r \in Transport :
         LET req == [url |-> "http://api.pathofexile.com/league-rules", params |-> PyNone]
         IN  /\ op' = "get_league_rules"
             /\ args' = NoArgs
             /\ sent' = IF r.kind = "response" /\ r.status_code.v # 200
                        THEN <<req, req>> ELSE <<req>>
             /\ response' = r
             /\ outcome' = IF r.kind = "error"
                           THEN Raise("ConnectionError")
                           ELSE ReturnJson(r)

get_league_rules ==
    /\ op = "none"
    /\ \E r \in Transport :
         /\ op' = "get_league_rules"
         /\ args' = NoArgs
         /\ sent' = <<[url |-> "http://api.pathofexile.com/league-rules", params |-> PyNone]>>
         /\ response' = r
         /\ outcome' = IF r.kind = "error"
                       THEN Raise("ConnectionError")
                       ELSE ReturnJson(r)

----------------------------------------------------------------------------
(* get_league_rule *)

\* A string handed to get_league_rule is a sequence of characters, so that
\* int() can be computed on it.
RuleIdChars == {"4", "2", "0", "-", " ", "a"}

RuleIdStrings == UNION {[1..n -> RuleIdChars] : n \in 0..MaxIdLen}

RuleIdInputs == {PyStr(s) : s \in RuleIdStrings} \cup {PyNone} \cup {PyInt(n) : n \in {-3, 0, 42}}

IsSpace(c) == c = " "
IsDigit(c) == c \in {"0", "2", "4"}
DigitValue(c) == CASE c = "0" -> 0 [] c = "2" -> 2 [] c = "4" -> 4

RECURSIVE lstrip(_)
lstrip(s) == IF s # <<>> /\ IsSpace(Head(s)) THEN lstrip(Tail(s)) ELSE s

RECURSIVE rstrip(_)
rstrip(s) == IF s # <<>> /\ IsSpace(s[Len(s)]) THEN rstrip(SubSeq(s, 1, Len(s) - 1)) ELSE s

strip(s) == rstrip(lstrip(s))

\* the value of a run of decimal digits, read left to right
RECURSIVE digits_value(_, _)
digits_value(s, acc) ==
    IF s = <<>> THEN acc ELSE digits_value(Tail(s), 10 * acc + DigitValue(Head(s)))

\* int(x) that does not accept a sign
int_unsigned(x) ==
    IF x.t = "int" THEN [ok |-> TRUE, v |-> x.v]
    ELSE IF x.t = "none" THEN [ok |-> FALSE, v |-> 0]
    ELSE LET body == strip(x.v)
         IN  IF body # <<>> /\ \A i \in 1..Len(body) : IsDigit(body[i])
             THEN [ok |-> TRUE, v |-> digits_value(body, 0)]
             ELSE [ok |-> FALSE, v |-> 0]

\* int(x): [ok |-> FALSE] when it raises (TypeError for None, ValueError for
\* a string that is not an optionally signed decimal number surrounded by
\* optional whitespace)
int(x) ==
    IF x.t = "int" THEN [ok |-> TRUE, v |-> x.v]
    ELSE IF x.t = "none" THEN [ok |-> FALSE, v |-> 0]
    ELSE LET s == strip(x.v)
             negative == s # <<>> /\ Head(s) = "-"
             body == IF negative THEN Tail(s) ELSE s
         IN  IF body # <<>> /\ \A i \in 1..Len(body) : IsDigit(body[i])
             THEN [ok |-> TRUE,
                   v |-> IF negative THEN 0 - digits_value(body, 0) ELSE digits_value(body, 0)]
             ELSE [ok |-> FALSE, v |-> 0]

DigitChar(d) ==
    CASE d = 0 -> "0" [] d = 1 -> "1" [] d = 2 -> "2" [] d = 3 -> "3" [] d = 4 -> "4"
      [] d = 5 -> "5" [] d = 6 -> "6" [] d = 7 -> "7" [] d = 8 -> "8" [] d = 9 -> "9"

RECURSIVE format_natural(_)
format_natural(n) ==
    IF n < 10 THEN DigitChar(n) ELSE format_natural(n \div 10) \o DigitChar(n % 10)

\* '%d' % n
format_d(n) == IF n < 0 THEN "-" \o format_natural(0 - n) ELSE format_natural(n)

\* the try/except around int(): the exception to raise, or "ok"
get_league_rule_validate(league_rule_id) ==
    IF ~int(league_rule_id).ok THEN "InvalidLeagueRuleIdError" ELSE "ok"

\* the endpoint of get_league_rule for the coerced id
get_league_rule_endpoint(id) == "http://api.pathofexile.com/league-rules/" \o format_d(id)

get_league_rule ==
    /\ op = "none"
    /\ \E league_rule_id \in RuleIdInputs, r \in Transport :
         LET err == get_league_rule_validate(league_rule_id)
         IN  /\ op' = "get_league_rule"
             /\ args' = [league_rule_id |-> league_rule_id]
             /\ IF err # "ok"
                THEN /\ sent' = <<>>
                     /\ response' = NoResponse
                     /\ outcome' = Raise(err)
                ELSE /\ sent' = <<[url |-> get_league_rule_endpoint(int(league_rule_id).v),
                                  params |-> PyNone]>>
                     /\ response' = r
                     /\ outcome' = IF r.kind = "error"
                                   THEN Raise("ConnectionError")
                                   ELSE ReturnJson(r)

----------------------------------------------------------------------------
(* get_ladder_segment *)

\* get_ladder_segment with an inclusive upper bound on ladder_offset
get_ladder_segment_validate_inclusive_offset(ladder_id, ladder_limit, ladder_offset) ==
    IF ~IsBasestring(ladder_id)
    THEN "InvalidLadderIdError"
    ELSE IF ~(ladder_limit.v > 0) \/ ~(ladder_limit.v <= MaxLadderLimit)
    THEN "InvalidLadderLimitError"
    ELSE IF ~(ladder_offset.v >= 0) \/ ~(ladder_offset.v <= MaxLadderOffset)
    THEN "InvalidLadderOffsetError"
    ELSE "ok"

\* the checks of get_ladder_segment, in order; "ok" when none raises
get_ladder_segment_validate(ladder_id, ladder_limit, ladder_offset) ==
    IF ~IsBasestring(ladder_id)
    THEN "InvalidLadderIdError"
    ELSE IF ~(ladder_limit.v > 0) \/ ~(ladder_limit.v <= MaxLadderLimit)
    THEN "InvalidLadderLimitError"
    ELSE IF ~(ladder_offset.v >= 0) \/ ~(ladder_offset.v < MaxLadderOffset)
    THEN "InvalidLadderOffsetError"
    ELSE "ok"

\* the params dict of get_ladder_segment
get_ladder_segment_params(ladder_id, ladder_limit, ladder_offset) ==
    [id |-> ladder_id, limit |-> ladder_limit, offset |-> ladder_offset]

\* the tail of get_ladder_segment: r.status_code, an integer, is compared
\* with the string '429'
get_ladder_segment_result(r) ==
    IF PyEq(r.status_code, PyStr("429"))
    THEN Raise("RateLimitExceededError")
    ELSE ReturnJson(r)

get_ladder_segment ==
    /\ op = "none"
    /\ \E ladder_id \in IdInputs, ladder_limit \in LadderLimitInputs,
          ladder_offset \in LadderOffsetInputs, r \in Transport :
         LET err == get_ladder_segment_validate(ladder_id, ladder_limit, ladder_offset)
         IN  /\ op' = "get_ladder_segment"
             /\ args' = [ladder_id |-> ladder_id, ladder_limit |-> ladder_limit,
                         ladder_offset |-> ladder_offset]
             /\ IF err # "ok"
                THEN /\ sent' = <<>>
                     /\ response' = NoResponse
                     /\ outcome' = Raise(err)
                ELSE /\ sent' = <<[url |-> "http://api.pathofexile.com/ladders",
                                  params |-> get_ladder_segment_params(ladder_id, ladder_limit,
                                                                       ladder_offset)]>>
                     /\ response' = r
                     /\ outcome' = IF r.kind = "error"
                                   THEN Raise("ConnectionError")
                                   ELSE get_ladder_segment_result(r)

----------------------------------------------------------------------------
(* The functions keep nothing between calls: once the caller has the       *)
(* outcome, the next call starts from the same state as the first.         *)

Init ==
    /\ op = "none"
    /\ args = NoArgs
    /\ sent = <<>>
    /\ response = NoResponse
    /\ outcome = NoOutcome

CallEnds ==
    /\ op # "none"
    /\ op' = "none"
    /\ args' = NoArgs
    /\ sent' = <<>>
    /\ response' = NoResponse
    /\ outcome' = NoOutcome

Next ==
    \/ get_leagues
    \/ get_league
    \/ get_league_rules
    \/ get_league_rule
    \/ get_ladder_segment
    \/ CallEnds

Spec == Init /\ [][Next]_vars

----------------------------------------------------------------------------
(* Properties *)

Raised(exc) == outcome.kind = "raise" /\ outcome.exc = exc

RaisedInvalidParameter == outcome.kind = "raise" /\ outcome.exc \in InvalidParameterErrors

\* the call got through validation and a response came back with a JSON body
Answered == Len(sent) > 0 /\ response.kind = "response" /\ IsJson(response.text)

Status(n) == response.kind = "response" /\ PyEq(response.status_code, PyInt(n))

LeagueTypes == {PyStr("all"), PyStr("main"), PyStr("season"), PyStr("event")}

\* C1: in each of the five functions a call that ends in an invalid-parameter
\* error has issued no GET, and every other call has issued exactly one GET
\* (no retry), whatever the transport answered.
C1_ValidationBeforeSingleRequest ==
    op \in {"get_leagues", "get_league", "get_league_rules", "get_league_rule",
            "get_ladder_segment"} =>
        IF RaisedInvalidParameter THEN Len(sent) = 0 ELSE Len(sent) = 1

C1_Witness ==
    /\ op = "get_league"
    /\ Raised("InvalidLadderOffsetError")
    /\ sent = <<>>
    /\ response = NoResponse

\* C2: get_ladder_segment with valid parameters raises RateLimitExceededError
\* when the response status is 429 and returns the decoded JSON body for every
\* other status.
C2_RateLimitRaisedOn429 ==
    (op = "get_ladder_segment" /\ Answered) =>
        IF Status(429)
        THEN Raised("RateLimitExceededError")
        ELSE outcome = Return(JsonDecode(response.text))

\* C3 as stated: for league_type "season", get_leagues raises InvalidSeasonError
\* when season is None or the empty string.
C3_EmptySeasonRejected ==
    (/\ op = "get_leagues"
     /\ PyEq(args.league_type, PyStr("season"))
     /\ (IsNone(args.season) \/ PyEq(args.season, PyStr("")))) =>
        Raised("InvalidSeasonError")

\* C3 amended: for league_type "season", get_leagues raises InvalidSeasonError
\* exactly when season is not a string (None included); the empty string is a
\* string, raises no season error and is sent as the season.
C3_SeasonMustBeString ==
    (op = "get_leagues" /\ PyEq(args.league_type, PyStr("season"))) =>
        /\ Raised("InvalidSeasonError") <=> args.season.t # "str"
        /\ (PyEq(args.season, PyStr("")) /\ Len(sent) = 1) =>
               sent[1].params.season = PyStr("")

C3_Witness ==
    /\ op = "get_leagues"
    /\ PyEq(args.league_type, PyStr("season"))
    /\ PyEq(args.season, PyStr(""))
    /\ Len(sent) = 1
    /\ outcome.kind = "return"

\* C4 as stated: get_league with the empty string as league id raises
\* InvalidLeagueIdError whatever the other parameters.
C4_EmptyLeagueIdRejected ==
    (op = "get_league" /\ PyEq(args.league_id, PyStr(""))) =>
        Raised("InvalidLeagueIdError")

\* C4 amended: get_league raises InvalidLeagueIdError, whatever the other
\* parameters, exactly when the league id is not a string; every string id,
\* the empty one included, with ladder=1, ladder_limit=200, ladder_offset=14999
\* passes validation and one request for leagues/<id> is issued.
C4_LeagueIdMustBeString ==
    op = "get_league" =>
        /\ Raised("InvalidLeagueIdError") <=> args.league_id.t # "str"
        /\ (/\ args.league_id.t = "str"
            /\ args.ladder = PyInt(1)
            /\ args.ladder_limit = PyInt(200)
            /\ args.ladder_offset = PyInt(14999)) =>
               /\ ~RaisedInvalidParameter
               /\ Len(sent) = 1
               /\ sent[1].url = "http://api.pathofexile.com/leagues/" \o args.league_id.v

C4_Witness ==
    /\ op = "get_league"
    /\ PyEq(args.league_id, PyStr(""))
    /\ args.ladder = PyInt(1)
    /\ args.ladder_limit = PyInt(200)
    /\ args.ladder_offset = PyInt(14999)
    /\ Len(sent) = 1
    /\ sent[1].url = "http://api.pathofexile.com/leagues/"

\* C5: the query parameters of an issued request are exactly the documented
\* keys with the caller's values: get_leagues sends type, compact, offset, plus
\* season when season is not None and limit when league_limit is not None;
\* get_league sends id, ladder, ladderLimit, ladderOffset; get_ladder_segment
\* sends id, limit, offset; get_league_rules and get_league_rule send none.
C5_ExactQueryParameters ==
    Len(sent) > 0 =>
        LET params == sent[1].params
        IN  CASE op = "get_leagues" ->
                   /\ DOMAIN params =
                        {"type", "compact", "offset"}
                          \cup (IF args.season.t # "none" THEN {"season"} ELSE {})
                          \cup (IF args.league_limit.t # "none" THEN {"limit"} ELSE {})
                   /\ params.type = args.league_type
                   /\ params.compact = args.compact_info
                   /\ params.offset = args.league_offset
                   /\ args.season.t # "none" => params.season = args.season
                   /\ args.league_limit.t # "none" => params.limit = args.league_limit
              [] op = "get_league" ->
                   /\ DOMAIN params = {"id", "ladder", "ladderLimit", "ladderOffset"}
                   /\ params.id = args.league_id
                   /\ params.ladder = args.ladder
                   /\ params.ladderLimit = args.ladder_limit
                   /\ params.ladderOffset = args.ladder_offset
              [] op = "get_ladder_segment" ->
                   /\ DOMAIN params = {"id", "limit", "offset"}
                   /\ params.id = args.ladder_id
                   /\ params.limit = args.ladder_limit
                   /\ params.offset = args.ladder_offset
              [] op \in {"get_league_rules", "get_league_rule"} ->
                   params = PyNone

C5_Witness ==
    /\ op = "get_leagues"
    /\ PyEq(args.league_type, PyStr("all"))
    /\ PyEq(args.season, PyStr("Medallion"))
    /\ IsNone(args.league_limit)
    /\ Len(sent) = 1
    /\ DOMAIN sent[1].params = {"type", "compact", "offset", "season"}

\* C6: for every league_type outside all, main, season, event, get_leagues
\* raises InvalidLeagueTypeError and issues no request, whatever season,
\* compact_info, league_limit and league_offset are.
C6_LeagueTypeCheckedFirst ==
    (op = "get_leagues" /\ args.league_type \notin LeagueTypes) =>
        /\ Raised("InvalidLeagueTypeError")
        /\ sent = <<>>

C6_Witness ==
    /\ op = "get_leagues"
    /\ PyEq(args.league_type, PyStr("standard"))
    /\ args.compact_info = PyInt(2)
    /\ args.league_limit = PyInt(231)
    /\ args.league_offset = PyInt(-1)
    /\ Raised("InvalidLeagueTypeError")

\* C7: when the league type, season and compact_info checks pass, get_leagues
\* raises InvalidLeagueLimitError exactly when league_limit is given and lies
\* outside 0..230; None, 0 and 230 are accepted (with a valid offset the
\* request is issued).
C7_LeagueLimitInclusiveBounds ==
    (/\ op = "get_leagues"
     /\ args.league_type \in LeagueTypes
     /\ (PyEq(args.league_type, PyStr("season")) => args.season.t = "str")
     /\ args.compact_info \in {PyInt(0), PyInt(1)}) =>
        LET limit == args.league_limit
            outside == limit.t = "int" /\ (limit.v < 0 \/ limit.v > 230)
        IN  /\ Raised("InvalidLeagueLimitError") <=> outside
            /\ (limit \in {PyNone, PyInt(0), PyInt(230)} /\ args.league_offset.v >= 0) =>
                   Len(sent) = 1 /\ ~RaisedInvalidParameter

C7_Witness ==
    /\ op = "get_leagues"
    /\ args.league_limit = PyInt(230)
    /\ Len(sent) = 1
    /\ sent[1].params.limit = PyInt(230)

\* the ladder_limit and ladder_offset of a get_league or get_ladder_segment call
LadderRangeHolds(limit, offset) ==
    LET limit_ok == 0 < limit.v /\ limit.v <= 200
        offset_ok == 0 <= offset.v /\ offset.v < 15000
    IN  /\ ~RaisedInvalidParameter <=> (limit_ok /\ offset_ok)
        /\ Len(sent) = 1 <=> (limit_ok /\ offset_ok)
        /\ ~limit_ok => Raised("InvalidLadderLimitError")
        /\ (limit_ok /\ ~offset_ok) => Raised("InvalidLadderOffsetError")
        /\ limit.v \in {0, 201} => Raised("InvalidLadderLimitError")
        /\ (limit_ok /\ offset.v \in {-1, 15000}) => Raised("InvalidLadderOffsetError")

\* C8: in get_league (with a string id and a ladder flag of 0 or 1) and in
\* get_ladder_segment (with a string id) the call is accepted exactly when
\* 0 < ladder_limit <= 200 and 0 <= ladder_offset < 15000; a limit of 0 or 201
\* raises InvalidLadderLimitError, an offset of -1 or 15000 raises
\* InvalidLadderOffsetError, and the limit error is raised when both are out
\* of range.
C8_LadderRanges ==
    /\ (/\ op = "get_league"
        /\ args.league_id.t = "str"
        /\ args.ladder \in {PyInt(0), PyInt(1)}) =>
           LadderRangeHolds(args.ladder_limit, args.ladder_offset)
    /\ (op = "get_ladder_segment" /\ args.ladder_id.t = "str") =>
           LadderRangeHolds(args.ladder_limit, args.ladder_offset)

C8_Witness ==
    /\ op = "get_ladder_segment"
    /\ args.ladder_id = PyStr("Standard")
    /\ args.ladder_limit = PyInt(200)
    /\ args.ladder_offset = PyInt(15000)
    /\ Raised("InvalidLadderOffsetError")
    /\ sent = <<>>

\* a string is a decimal number: optional spaces, an optional minus sign, one
\* or more digits, optional spaces
IsDecimalLiteral(s, i, j) ==
    /\ i <= j
    /\ \A k \in 1..(i - 1) : s[k] = " "
    /\ \A k \in (j + 1)..Len(s) : s[k] = " "
    /\ \/ \A k \in i..j : s[k] \in {"0", "2", "4"}
       \/ s[i] = "-" /\ i < j /\ \A k \in (i + 1)..j : s[k] \in {"0", "2", "4"}

RECURSIVE Pow10(_)
Pow10(e) == IF e = 0 THEN 1 ELSE 10 * Pow10(e - 1)

RECURSIVE PositionalSum(_, _, _)
PositionalSum(s, i, j) ==
    IF i > j THEN 0
    ELSE DigitValue(s[i]) * Pow10(j - i) + PositionalSum(s, i + 1, j)

LiteralValue(s, i, j) ==
    IF s[i] = "-" THEN 0 - PositionalSum(s, i + 1, j) ELSE PositionalSum(s, i, j)

\* the request and result of a get_league_rule call for rule id n
RequestsRule(n, path) ==
    /\ LET request == [url |-> "http://api.pathofexile.com/league-rules/" \o path,
                       params |-> PyNone]
       IN  sent = <<request>>
    /\ ~RaisedInvalidParameter
    /\ Answered => outcome = Return(JsonDecode(response.text))

\* C9: get_league_rule raises InvalidLeagueRuleIdError, and issues no request,
\* for every input int() does not accept (None, a string that is not a
\* decimal number such as "a" or "4-2"); for every other input (an integer, a
\* decimal string such as "42", " 42", "042", "-4") it issues one GET for
\* league-rules/<the integer> and returns the decoded body.
C9_RuleIdCoercion ==
    op = "get_league_rule" =>
        LET id == args.league_rule_id
            s == id.v
            spans == IF id.t = "str"
                     THEN {<<i, j>> \in (1..Len(s)) \X (1..Len(s)) : IsDecimalLiteral(s, i, j)}
                     ELSE {}
        IN  /\ (id.t = "none" \/ (id.t = "str" /\ spans = {})) =>
                   Raised("InvalidLeagueRuleIdError") /\ sent = <<>>
            /\ id.t = "int" => RequestsRule(id.v, format_d(id.v))
            /\ \A span \in spans :
                   RequestsRule(LiteralValue(s, span[1], span[2]),
                                format_d(LiteralValue(s, span[1], span[2])))
            /\ id \in {PyStr(<<"4", "2">>), PyStr(<<"0", "4", "2">>), PyStr(<<" ", "4", "2">>),
                       PyInt(42)} =>
                   RequestsRule(42, "42")
            /\ id = PyStr(<<"-", "4">>) => RequestsRule(-4, "-4")
            /\ id \in {PyStr(<<"a">>), PyStr(<<"4", "-", "2">>), PyStr(<<>>), PyStr(<<"-">>),
                       PyStr(<<"4", " ", "2">>), PyNone} =>
                   Raised("InvalidLeagueRuleIdError")

C9_Witness ==
    /\ op = "get_league_rule"
    /\ args.league_rule_id = PyStr(<<"4", "2">>)
    /\ Len(sent) = 1
    /\ sent[1].url = "http://api.pathofexile.com/league-rules/42"
    /\ outcome.kind = "return"

\* C10: get_leagues, get_league, get_league_rules and get_league_rule never
\* raise RateLimitExceededError; answered with status 429 they return the
\* decoded JSON body, as for any other status.
C10_NoRateLimitOutsideLadder ==
    op \in {"get_leagues", "get_league", "get_league_rules", "get_league_rule"} =>
        /\ ~Raised("RateLimitExceededError")
        /\ Answered => outcome = Return(JsonDecode(response.text))

C10_Witness ==
    /\ op = "get_league"
    /\ Status(429)
    /\ Answered
    /\ outcome.kind = "return"

====
